---- MODULE Spec2Model ----
(***************************************************************************)
(* One POST /search request travelling through the middleware chain of     *)
(* latvenergo-task/index.js: body parsers, incoming logger, error          *)
(* middleware, res.json wrapper, parseRequestBody, the /search handler and *)
(* the https.get callbacks.  Everything the program prints or sends is     *)
(* appended, in program order, to the sequence io.                         *)
(***************************************************************************)
EXTENDS Integers, Sequences, FiniteSets, TLC

VARIABLES pc, req, body, err, jsonWrapped, statusCode, responseBody, up, data, io

vars == <<pc, req, body, err, jsonWrapped, statusCode, responseBody, up, data, io>>

(* ------------------------------ bounds --------------------------------- *)

MaxQueryLen == 11

MaxPage == 3

MaxChunks == 2

(* --------------------------- JavaScript values ------------------------- *)
(* t is the result of typeof, len the length of a string, n the value of a *)
(* number.  JsObject is a nested object; the handler never looks inside.   *)

JsUndefined == [t |-> "undefined", len |-> 0, n |-> 0]

JsNull == [t |-> "object", len |-> 0, n |-> 0]

JsObject == [t |-> "object", len |-> 1, n |-> 0]

JsNumber(k) == [t |-> "number", len |-> 0, n |-> k]

JsString(l) == [t |-> "string", len |-> l, n |-> 0]

QueryValues == {JsNull, JsNumber(5)} \cup {JsString(l) : l \in 0..MaxQueryLen}

PageValues == {JsNull, JsString(1)} \cup {JsNumber(k) : k \in (0 - 1)..MaxPage}

Prop(obj, key) == IF key \in DOMAIN obj THEN obj[key] ELSE JsUndefined

(* ------------------------------ requests ------------------------------- *)

EmptyObject == [k \in {} |-> JsUndefined]

Members == { [k \in D |-> IF k = "query" THEN qp[1] ELSE qp[2]] :
               D \in SUBSET {"query", "page"}, qp \in QueryValues \X PageValues }

XmlRoots == {"request", "query"}

AcceptHeaders ==
    { <<>>, <<"application/json">>, <<"application/xml">>, <<"*/*">>,
      <<"text/html">>, <<"text/xml">>,
      <<"application/json", "application/xml">>,
      <<"application/xml", "application/json">>,
      <<"text/html", "application/xml">> }

(* wire: "ok" is a well-formed body, "malformed" one the decoder rejects,   *)
(* "toolarge" one over the decoder's size limit.  For XML, root is the     *)
(* document element, text >= 0 the length of its text content, and members *)
(* its child elements (the values their text spells).                      *)

BadWires == {"malformed", "toolarge"}

JsonRequests ==
    { [ctype |-> "application/json", accept |-> a, wire |-> "ok", root |-> "",
       text |-> 0 - 1, members |-> m] : a \in AcceptHeaders, m \in Members }

XmlElementRequests ==
    { [ctype |-> "application/xml", accept |-> a, wire |-> "ok", root |-> "request",
       text |-> 0 - 1, members |-> m] :
         a \in AcceptHeaders,
         m \in { x \in Members : \A k \in DOMAIN x : x[k].t \in {"string", "number"} } }

BadRequests ==
    { [ctype |-> c, accept |-> a, wire |-> w, root |-> "",
       text |-> 0 - 1, members |-> EmptyObject] :
         c \in {"application/json", "application/xml"}, a \in AcceptHeaders,
         w \in BadWires }

XmlTextRequests ==
    { [ctype |-> "application/xml", accept |-> a, wire |-> "ok", root |-> r,
       text |-> l, members |-> EmptyObject] :
         a \in AcceptHeaders, r \in XmlRoots, l \in {2, 5, MaxQueryLen} }

OtherRequests ==
    { [ctype |-> "", accept |-> a, wire |-> "ok", root |-> "",
       text |-> 0 - 1, members |-> EmptyObject] : a \in AcceptHeaders }

Requests ==
    JsonRequests \cup XmlElementRequests \cup XmlTextRequests \cup BadRequests
        \cup OtherRequests

NoRequest == [ctype |-> "", accept |-> <<>>, wire |-> "ok", root |-> "",
              text |-> 0 - 1, members |-> EmptyObject]

(* --------------------------- upstream replies -------------------------- *)

Products ==
    { [title |-> "a", description |-> "x", price |-> 10, discountPercentage |-> 10],
      [title |-> "b", description |-> "y", price |-> 100, discountPercentage |-> 20] }

ProductLists == {<<>>} \cup {<<p>> : p \in Products}
                    \cup {<<p, q>> : p \in Products, q \in Products}

UpstreamKinds == {"products", "notjson", "noproducts"}

UpstreamReplies ==
    { [kind |-> k, nchunks |-> c, products |-> IF k = "products" THEN ps ELSE <<>>] :
        k \in UpstreamKinds, c \in 1..MaxChunks, ps \in ProductLists }

NoReply == [kind |-> "notjson", nchunks |-> 1, products |-> <<>>]

NoUpstream == [phase |-> "none", reply |-> NoReply]

(* ------------------------------- errors -------------------------------- *)

NoError == [name |-> "", status |-> 0, hasBody |-> FALSE, stack |-> ""]

JsonSyntaxError ==
    [name |-> "SyntaxError", status |-> 400, hasBody |-> TRUE,
     stack |-> "SyntaxError: Unexpected token in JSON"]

XmlParseError ==
    [name |-> "Error", status |-> 400, hasBody |-> FALSE,
     stack |-> "Error: Unclosed root tag"]

TooLargeError ==
    [name |-> "PayloadTooLargeError", status |-> 413, hasBody |-> FALSE,
     stack |-> "PayloadTooLargeError: request entity too large"]

TransportStack == "Error: connect ECONNREFUSED"

OrElse(a, b) == IF a = "" THEN b ELSE a

(* ------------------------------ payloads ------------------------------- *)
(* res.locals.responseBody.  code = 0 and fault = "" stand for a property  *)
(* the object does not have.                                               *)

NoPayload == [shape |-> "none", code |-> 0, message |-> "", fault |-> "", items |-> <<>>]

ErrorBody(c, m, f) ==
    [shape |-> "error", code |-> c, message |-> m, fault |-> f, items |-> <<>>]

SuccessBody(items) ==
    [shape |-> "products", code |-> 0, message |-> "", fault |-> "", items |-> items]

(* The object the error middleware builds: {type, body, dateTime, fault}.  *)
ParseErrorBody(e) ==
    [shape |-> "messageOut", code |-> 0, message |-> "",
     fault |-> OrElse(e.stack, "No stack trace available"), items |-> <<>>]

Stringify(x) == <<"json", x>>

(* ------------------------------ validation ----------------------------- *)

RECURSIVE Join(_, _)
Join(msgs, sep) ==
    IF msgs = <<>> THEN ""
    ELSE IF Len(msgs) = 1 THEN msgs[1]
    ELSE msgs[1] \o sep \o Join(Tail(msgs), sep)

PageOf(b) == IF Prop(b, "page").t = "undefined" THEN JsNumber(1) ELSE Prop(b, "page")

QueryMessages(query) ==
    IF query.t # "string" THEN <<"Query must be a string.">>
    ELSE IF query.len < 3 \/ query.len > 10
         THEN <<"Query length must be between 3 and 10 characters.">>
         ELSE <<>>

PageMessages(page) ==
    IF page.t # "number" THEN <<"Page must be a number.">>
    ELSE IF page.n < 1 THEN <<"Page must be greater than or equal to 1.">>
         ELSE <<>>

ErrorMessagesShortCircuit(query, page) ==
    IF QueryMessages(query) # <<>> THEN QueryMessages(query) ELSE PageMessages(page)

ErrorMessages(query, page) == QueryMessages(query) \o PageMessages(page)

ValidationError(msgs) == ErrorBody(400, Join(msgs, " "), "")

pageSize == 2

SkipFromPage(page) == page.n * pageSize

Skip(page) == (page.n - 1) * pageSize

GetEvent(query, page) ==
    [ev |-> "get", q |-> query, limit |-> pageSize, skip |-> Skip(page)]

(* ----------------------------- transformer ----------------------------- *)
(* final_price is kept in hundredths: (price - price * d / 100).toFixed(2) *)

FinalPrice(p) == p.price * 100 - p.price * p.discountPercentage

Transform(p) ==
    [title |-> p.title, description |-> p.description, final_price |-> FinalPrice(p)]

TransformAll(ps) == [i \in 1..Len(ps) |-> Transform(ps[i])]

(* JSON.parse(data).products.map(...) on the text accumulated so far.      *)
ParseThrows(reply, received) ==
    \/ received # reply.nchunks
    \/ reply.kind # "products"

ParseStack(reply, received) ==
    IF received # reply.nchunks \/ reply.kind = "notjson"
    THEN "SyntaxError: Unexpected end of JSON input"
    ELSE "TypeError: Cannot read properties of undefined (reading 'map')"

FetchFailure(stack) ==
    ErrorBody(500, "Failed to fetch products from external API",
              OrElse(stack, "No stack trace available"))

ParseFailureWithStackInMessage(stack) ==
    ErrorBody(500, "Failed to parse response from external API: " \o stack, "")

ParseFailure(stack) ==
    ErrorBody(500, "Failed to parse response from external API",
              OrElse(stack, "No stack trace available"))

(* --------------------------- formatResponse ---------------------------- *)

FormatKeys == <<"application/json", "application/xml">>

Matches(range, key) == range = key \/ range = "*/*"

(* req.accepts(keys): no Accept header gives the first key; otherwise the  *)
(* key matched by the earliest acceptable range, "" when none matches.     *)
RECURSIVE Accepts(_)
Accepts(accept) ==
    IF accept = <<>> THEN ""
    ELSE IF \E i \in 1..Len(FormatKeys) : Matches(Head(accept), FormatKeys[i])
         THEN FormatKeys[CHOOSE i \in 1..Len(FormatKeys) :
                  /\ Matches(Head(accept), FormatKeys[i])
                  /\ \A j \in 1..(i - 1) : ~Matches(Head(accept), FormatKeys[j])]
         ELSE Accepts(Tail(accept))

RepresentationDefaultXml(accept) ==
    LET key == IF accept = <<>> THEN FormatKeys[1] ELSE Accepts(accept)
    IN  IF key = "application/json" THEN "json" ELSE "xml"

Representation(accept) ==
    LET key == IF accept = <<>> THEN FormatKeys[1] ELSE Accepts(accept)
    IN  IF key = "application/json" THEN "json"
        ELSE IF key = "application/xml" THEN "xml"
        ELSE "json"

SendEvent(status, rep, root, payload) ==
    [ev |-> "send", status |-> status, rep |-> rep, root |-> root, payload |-> payload]

LogEvent(by, type, b, fault) ==
    [ev |-> "log", by |-> by, type |-> type, body |-> b, fault |-> fault]

(* The wrapped res.json: log messageOut, then the original res.json.       *)
OutgoingFault(payload) ==
    IF payload.code >= 400 THEN OrElse(payload.fault, "No error occurred") ELSE ""

ResJson(wrapped, status, payload) ==
    (IF wrapped
     THEN <<LogEvent("outgoing", "messageOut", Stringify(payload), OutgoingFault(payload))>>
     ELSE <<>>)
    \o <<SendEvent(status, "json", "", payload)>>

FormatResponse(accept, wrapped, status, payload) ==
    IF Representation(accept) = "xml"
    THEN <<SendEvent(status, "xml", "response", payload)>>
    ELSE ResJson(wrapped, status, payload)

(* ------------------------------- state --------------------------------- *)

Init ==
    /\ pc = "idle"
    /\ req = NoRequest
    /\ body = EmptyObject
    /\ err = NoError
    /\ jsonWrapped = FALSE
    /\ statusCode = 200
    /\ responseBody = NoPayload
    /\ up = NoUpstream
    /\ data = 0
    /\ io = <<>>

(* A POST /search request arrives.                                         *)
Receive ==
    /\ pc = "idle"
    /\ \E r \in Requests : req' = r
    /\ pc' = "json"
    /\ UNCHANGED <<body, err, jsonWrapped, statusCode, responseBody, up, data, io>>

(* app.use(bodyParser.json()): the default limit is 100kb.                 *)
JsonBodyParser ==
    /\ pc = "json"
    /\ IF req.ctype = "application/json"
       THEN IF req.wire = "malformed"
            THEN err' = JsonSyntaxError /\ pc' = "error" /\ body' = body
            ELSE IF req.wire = "toolarge"
                 THEN err' = TooLargeError /\ pc' = "error" /\ body' = body
                 ELSE body' = req.members /\ pc' = "xml" /\ err' = err
       ELSE body' = body /\ pc' = "xml" /\ err' = err
    /\ UNCHANGED <<req, jsonWrapped, statusCode, responseBody, up, data, io>>

(* xml2js with normalize, normalizeTags, explicitArray: false; the root    *)
(* element stays a key of the result (explicitRoot is not switched off).   *)
XmlDecode(r) ==
    [k \in {r.root} |->
        IF r.text >= 0 THEN JsString(r.text)
        ELSE IF DOMAIN r.members = {} THEN JsString(0)
        ELSE JsObject]

(* app.use(bodyParser.xml({limit: '1MB', ...})).                           *)
XmlBodyParser ==
    /\ pc = "xml"
    /\ IF req.ctype = "application/xml"
       THEN IF req.wire = "malformed"
            THEN err' = XmlParseError /\ pc' = "error" /\ body' = body
            ELSE IF req.wire = "toolarge"
                 THEN err' = TooLargeError /\ pc' = "error" /\ body' = body
                 ELSE body' = XmlDecode(req) /\ pc' = "logIn" /\ err' = err
       ELSE body' = body /\ pc' = "logIn" /\ err' = err
    /\ UNCHANGED <<req, jsonWrapped, statusCode, responseBody, up, data, io>>

(* Logging middleware for incoming requests.                               *)
LogIncoming ==
    /\ pc = "logIn"
    /\ io' = Append(io, LogEvent("incoming", "messageIn", Stringify(body), ""))
    /\ pc' = "wrap"
    /\ UNCHANGED <<req, body, err, jsonWrapped, statusCode, responseBody, up, data>>

IsBodySyntaxError(e) == e.name = "SyntaxError" /\ e.status = 400 /\ e.hasBody

(* Error handling middleware; an error it does not recognise goes to       *)
(* Express's default handler, which answers with err.status in HTML.       *)
ErrorMiddleware ==
    /\ pc = "error"
    /\ IF IsBodySyntaxError(err)
       THEN /\ responseBody' = ParseErrorBody(err)
            /\ io' = io
                 \o <<LogEvent("errorMw", "messageOut", <<"raw", req.wire>>,
                               OrElse(err.stack, "No stack trace available"))>>
                 \o FormatResponse(req.accept, jsonWrapped, statusCode,
                                   ParseErrorBody(err))
            /\ statusCode' = statusCode
       ELSE /\ statusCode' = err.status
            /\ io' = Append(io, SendEvent(err.status, "html", "", NoPayload))
            /\ responseBody' = responseBody
    /\ pc' = "done"
    /\ UNCHANGED <<req, body, err, jsonWrapped, up, data>>

(* Logging middleware for outgoing responses: replaces res.json.           *)
WrapResJson ==
    /\ pc = "wrap"
    /\ jsonWrapped' = TRUE
    /\ pc' = "route"
    /\ UNCHANGED <<req, body, err, statusCode, responseBody, up, data, io>>

(* contentType && contentType.includes('xml')                              *)
IsXmlContentType(ctype) == ctype # "" /\ ctype = "application/xml"

(* parseRequestBody: next() for XML; otherwise bodyParser.json() a second  *)
(* time, which skips a request whose body the first parser has read and    *)
(* one that is not JSON, so req.body stays as it is on both branches.      *)
ParseRequestBody ==
    /\ pc = "route"
    /\ \/ IsXmlContentType(req.ctype)
       \/ ~IsXmlContentType(req.ctype)
    /\ pc' = "handler"
    /\ UNCHANGED <<req, body, err, jsonWrapped, statusCode, responseBody, up, data, io>>

(* app.post('/search', ...): validation, then https.get.                   *)
SearchHandler ==
    /\ pc = "handler"
    /\ LET query == Prop(body, "query")
           page == PageOf(body)
           errorMessages == ErrorMessages(query, page)
       IN  IF Len(errorMessages) > 0
           THEN /\ responseBody' = ValidationError(errorMessages)
                /\ io' = io
                     \o <<LogEvent("console", "", ValidationError(errorMessages), "")>>
                     \o FormatResponse(req.accept, jsonWrapped, statusCode,
                                       ValidationError(errorMessages))
                /\ pc' = "done"
                /\ up' = up
           ELSE /\ io' = Append(io, GetEvent(query, page))
                /\ up' = [up EXCEPT !.phase = "pending"]
                /\ pc' = "upstream"
                /\ responseBody' = responseBody
    /\ UNCHANGED <<req, body, err, jsonWrapped, statusCode, data>>

(* The https.get callback: a response has started; let data = ''.          *)
UpstreamResponse ==
    /\ pc = "upstream"
    /\ up.phase = "pending"
    /\ \E r \in UpstreamReplies : up' = [phase |-> "streaming", reply |-> r]
    /\ data' = 0
    /\ UNCHANGED <<pc, req, body, err, jsonWrapped, statusCode, responseBody, io>>

UpstreamDataReplies ==
    /\ pc = "upstream"
    /\ up.phase = "streaming"
    /\ data < up.reply.nchunks
    /\ data' = data + 1
    /\ io' = io \o FormatResponse(req.accept, jsonWrapped, statusCode,
                                  ParseFailure(ParseStack(up.reply, data + 1)))
    /\ UNCHANGED <<pc, req, body, err, jsonWrapped, statusCode, responseBody, up>>

(* response.on('data'): data += chunk.                                     *)
UpstreamData ==
    /\ pc = "upstream"
    /\ up.phase = "streaming"
    /\ data < up.reply.nchunks
    /\ data' = data + 1
    /\ UNCHANGED <<pc, req, body, err, jsonWrapped, statusCode, responseBody, up, io>>

(* response.on('end'): emitted once, after the last chunk.                 *)
UpstreamEnd ==
    /\ pc = "upstream"
    /\ up.phase = "streaming"
    /\ data = up.reply.nchunks
    /\ LET payload ==
               IF ParseThrows(up.reply, data)
               THEN ParseFailure(ParseStack(up.reply, data))
               ELSE SuccessBody(TransformAll(up.reply.products))
       IN  /\ responseBody' = payload
           /\ io' = io
                \o (IF ParseThrows(up.reply, data)
                    THEN <<LogEvent("console", "", payload, "")>> ELSE <<>>)
                \o FormatResponse(req.accept, jsonWrapped, statusCode, payload)
    /\ up' = [up EXCEPT !.phase = "ended"]
    /\ pc' = "done"
    /\ UNCHANGED <<req, body, err, jsonWrapped, statusCode, data>>

(* https.get(...).on('error'): the request failed before a response came,  *)
(* or the connection broke while the body was streaming; Node emits no     *)
(* 'end' after it and no 'error' after 'end'.                              *)
UpstreamError ==
    /\ pc = "upstream"
    /\ up.phase \in {"pending", "streaming"}
    /\ responseBody' = FetchFailure(TransportStack)
    /\ io' = io
         \o <<LogEvent("console", "", FetchFailure(TransportStack), "")>>
         \o FormatResponse(req.accept, jsonWrapped, statusCode,
                           FetchFailure(TransportStack))
    /\ up' = [up EXCEPT !.phase = "failed"]
    /\ pc' = "done"
    /\ UNCHANGED <<req, body, err, jsonWrapped, statusCode, data>>

Next ==
    \/ Receive
    \/ JsonBodyParser
    \/ XmlBodyParser
    \/ LogIncoming
    \/ ErrorMiddleware
    \/ WrapResJson
    \/ ParseRequestBody
    \/ SearchHandler
    \/ UpstreamResponse
    \/ UpstreamData
    \/ UpstreamEnd
    \/ UpstreamError

Spec == Init /\ [][Next]_vars

(* ------------------------------ the claims ----------------------------- *)

Sends == SelectSeq(io, LAMBDA e : e.ev = "send")

Gets == SelectSeq(io, LAMBDA e : e.ev = "get")

HandlerRan == pc \in {"upstream", "done"} /\ err = NoError

(* C1: every response of the /search pipeline has HTTP status 200 for a    *)
(* success body and the body's code (400 or 500) for an error body.        *)
C1_StatusIsPayloadCode ==
    \A i \in DOMAIN io :
        (io[i].ev = "send" /\ io[i].payload.shape \in {"products", "error"})
            => io[i].status = (IF io[i].payload.shape = "products" THEN 200
                               ELSE io[i].payload.code)

(* C2: the query rule and the page rule are evaluated independently; the   *)
(* collected messages, query first, joined by one space, are the message   *)
(* of a code-400 payload; an absent page counts as 1.                      *)
C2_ValidationMessages ==
    HandlerRan =>
        LET q == IF "query" \in DOMAIN body THEN body["query"] ELSE JsUndefined
            p == IF "page" \in DOMAIN body THEN body["page"] ELSE JsNumber(1)
            qm == IF q.t # "string" THEN "Query must be a string."
                  ELSE IF q.len < 3 \/ q.len > 10
                       THEN "Query length must be between 3 and 10 characters."
                       ELSE ""
            pm == IF p.t # "number" THEN "Page must be a number."
                  ELSE IF p.n < 1 THEN "Page must be greater than or equal to 1."
                       ELSE ""
            expected == IF qm # "" /\ pm # "" THEN qm \o " " \o pm ELSE qm \o pm
        IN  IF expected # ""
            THEN /\ Len(Sends) = 1
                 /\ Sends[1].payload.code = 400
                 /\ Sends[1].payload.message = expected
            ELSE \A i \in DOMAIN Sends : Sends[i].payload.code # 400

C2_Witness ==
    /\ HandlerRan
    /\ Len(Sends) = 1
    /\ Sends[1].payload.message = "Query must be a string. Page must be a number."

(* C3: a request with a string query of length 3..10 and a number page >=  *)
(* 1 issues exactly one upstream call with limit 2 and skip (page-1)*2; a  *)
(* request failing validation issues none.                                 *)
C3_UpstreamCall ==
    HandlerRan =>
        LET q == Prop(body, "query")
            p == IF "page" \in DOMAIN body THEN body["page"] ELSE JsNumber(1)
        IN  IF q.t = "string" /\ q.len >= 3 /\ q.len <= 10 /\ p.t = "number" /\ p.n >= 1
            THEN Gets = <<[ev |-> "get", q |-> q, limit |-> 2, skip |-> (p.n - 1) * 2]>>
            ELSE Gets = <<>>

C3_Witness ==
    /\ HandlerRan
    /\ Len(Gets) = 1
    /\ Gets[1].skip = 4
    /\ "page" \in DOMAIN body

(* C4: a malformed inbound body is answered with HTTP status 400 and a     *)
(* payload with code 400 and a message.                                    *)
C4_MalformedBodyIsErrorResponse ==
    (pc = "done" /\ req.wire = "malformed") =>
        /\ Len(Sends) = 1
        /\ Sends[1].status = 400
        /\ Sends[1].payload.code = 400
        /\ Sends[1].payload.message # ""

(* C5: an upstream 'error' event gives code 500 with the fetch message, a  *)
(* completed reply that is not JSON or has no products array gives code    *)
(* 500 with the parse message; fault carries the error detail and message  *)
(* none of it.                                                             *)
C5_UpstreamFailures ==
    /\ up.phase = "failed" =>
          /\ Len(Sends) = 1
          /\ Sends[1].payload.code = 500
          /\ Sends[1].payload.message = "Failed to fetch products from external API"
          /\ Sends[1].payload.fault = "Error: connect ECONNREFUSED"
    /\ (up.phase = "ended" /\ up.reply.kind # "products") =>
          /\ Len(Sends) = 1
          /\ Sends[1].payload.code = 500
          /\ Sends[1].payload.message = "Failed to parse response from external API"
          /\ Sends[1].payload.fault =
                (IF up.reply.kind = "notjson"
                 THEN "SyntaxError: Unexpected end of JSON input"
                 ELSE "TypeError: Cannot read properties of undefined (reading 'map')")

C5_Witness ==
    /\ up.phase = "ended"
    /\ up.reply.kind = "noproducts"
    /\ Len(Sends) = 1
    /\ Sends[1].payload.code = 500

(* C6: a payload handed to formatResponse goes out as XML under the root   *)
(* `response` when the caller's Accept asks for application/xml first, and *)
(* as JSON when it asks for JSON, for nothing, or for anything else; the   *)
(* payload plays no part in the choice.                                    *)
XmlPreferring ==
    { <<"application/xml">>, <<"application/xml", "application/json">>,
      <<"text/html", "application/xml">> }

C6_RepresentationByAccept ==
    \A i \in DOMAIN io :
        (io[i].ev = "send" /\ io[i].rep # "html") =>
            IF req.accept \in XmlPreferring
            THEN io[i].rep = "xml" /\ io[i].root = "response"
            ELSE io[i].rep = "json"

C6_Witness ==
    /\ Len(Sends) = 1
    /\ Sends[1].rep = "xml"
    /\ Sends[1].payload.shape = "products"
    /\ req.accept = <<"text/html", "application/xml">>

(* C7: an XML body carrying a query of length 3..10 and a page >= 1 (or no *)
(* page) passes validation and leads to the upstream call of its JSON      *)
(* counterpart.                                                            *)
XmlRecord(r) ==
    IF r.text >= 0
    THEN [k \in {r.root} \cap {"query", "page"} |-> JsString(r.text)]
    ELSE r.members

C7_XmlSameAsJson ==
    LET rec == XmlRecord(req)
        q == Prop(rec, "query")
        p == PageOf(rec)
    IN  (/\ HandlerRan
         /\ req.ctype = "application/xml"
         /\ q.t = "string" /\ q.len >= 3 /\ q.len <= 10
         /\ p.t = "number" /\ p.n >= 1)
            => Gets = <<GetEvent(q, p)>>

(* C8: every response is preceded by a messageIn log entry of its request. *)
C8_MessageInBeforeResponse ==
    \A i \in DOMAIN io :
        io[i].ev = "send" =>
            \E j \in 1..(i - 1) : io[j].ev = "log" /\ io[j].type = "messageIn"

(* C9: every JSON response is preceded by a messageOut entry of the        *)
(* outgoing-response logger carrying the serialized body, with fault set   *)
(* exactly when the body's code is >= 400.                                 *)
C9_MessageOutBeforeJson ==
    \A i \in DOMAIN io :
        (io[i].ev = "send" /\ io[i].rep = "json") =>
            \E j \in 1..(i - 1) :
                /\ io[j].ev = "log"
                /\ io[j].by = "outgoing"
                /\ io[j].type = "messageOut"
                /\ io[j].body = Stringify(io[i].payload)
                /\ (io[j].fault # "") <=> (io[i].payload.code >= 400)

====
